---- MODULE Spec2Model ----
(***************************************************************************)
(* Model of sagemaker/utilities/tarfile.py: the path-containment check,    *)
(* the archive entry filter, and the two-strategy compress / extract       *)
(* engine.                                                                 *)
(*                                                                         *)
(* A Python str is a sequence of one-character strings, so that            *)
(* str.startswith, os.path.join, dirname and normpath are computed on      *)
(* characters exactly as posixpath computes them.                          *)
(***************************************************************************)
EXTENDS Integers, Sequences, FiniteSets, TLC

VARIABLES
    op,          \* which entry point this run calls: "path", "extract", "compress"
    pc,          \* position of the call: "start", "loop", "done"
    cwd,         \* the process's current working directory (canonical)
    links,       \* the filesystem's symbolic links: canonical path -> target text
    \* ---- _is_bad_path called on its own
    vbase,       \* base argument
    vpath,       \* path argument
    verdict,     \* "none", or what the call returned: "bad" / "contained"
    \* ---- extract_tar_gz
    destination_path,
    members,     \* the archive's entries, in archive order
    tarExists,   \* _command_exists(TAR_COMMAND)
    pigzExists,  \* _command_exists(PIGZ_COMMAND)
    hasDataFilter, \* hasattr(tarfile, "data_filter")
    idx,         \* index of the next entry to process
    base,        \* the base held by _get_safe_members (empty before it starts)
    yielded,     \* entries the filter has yielded so far
    extracted,   \* entries materialized so far, in order
    blocked,     \* entries the filter has logged as blocked so far
    written,     \* canonical paths at which an entry has been materialized
    outcome,     \* "none", "returned", "raised"
    \* ---- compress_files_to_tar_gz
    files,       \* list of FileToCompress objects (fields may be mutated)
    files0,      \* the same list as the caller built it
    isBsd,       \* _is_bsd_tar()
    exitCode,    \* exit status of the external tool
    command,     \* the pieces of the command_text that was run
    stored,      \* member names stored in the archive at archive_path
    archiveFile, \* "absent", "partial", "complete"
    error        \* the exception the call raised, if any

vars == <<op, pc, cwd, links, vbase, vpath, verdict, destination_path, members,
          tarExists, pigzExists, hasDataFilter, idx, base, yielded, extracted,
          blocked, written, outcome, files, files0, isBsd, exitCode, command, stored,
          archiveFile, error>>

pathVars == <<vbase, vpath, verdict>>
extractVars == <<destination_path, members, hasDataFilter, idx, base, yielded,
                 extracted, blocked, written>>
compressVars == <<files, files0, isBsd, stored, archiveFile>>

--------------------------------------------------------------------------
(* Bounds *)
MaxEntries == 2      \* entries in an archive
MaxFiles == 2        \* FileToCompress objects in one call
MaxSegs == 2         \* separators in a candidate path given to _is_bad_path

--------------------------------------------------------------------------
(* Strings and posixpath *)

sep == "/"
curdir == <<".">>
pardir == <<".", ".">>
EMPTY == <<>>

startswith(s, prefix) ==
    /\ Len(prefix) <= Len(s)
    /\ SubSeq(s, 1, Len(prefix)) = prefix

\* str.find(sep) + 1: index of the first separator, 0 when there is none
find(s) ==
    IF \E i \in 1..Len(s) : s[i] = sep
    THEN CHOOSE i \in 1..Len(s) : s[i] = sep /\ \A j \in 1..(i - 1) : s[j] # sep
    ELSE 0

\* str.rfind(sep) + 1
rfind(s) ==
    IF \E i \in 1..Len(s) : s[i] = sep
    THEN CHOOSE i \in 1..Len(s) : s[i] = sep /\ \A j \in (i + 1)..Len(s) : s[j] # sep
    ELSE 0

RECURSIVE rstrip(_)
rstrip(s) ==
    IF s # EMPTY /\ s[Len(s)] = sep THEN rstrip(SubSeq(s, 1, Len(s) - 1)) ELSE s

RECURSIVE lstrip(_)
lstrip(s) ==
    IF s # EMPTY /\ s[1] = sep THEN lstrip(Tail(s)) ELSE s

\* str.split(sep)
RECURSIVE split(_)
split(s) ==
    LET i == find(s) IN
    IF i = 0 THEN <<s>>
    ELSE <<SubSeq(s, 1, i - 1)>> \o split(SubSeq(s, i + 1, Len(s)))

\* sep.join(comps)
RECURSIVE join(_)
join(comps) ==
    IF comps = <<>> THEN EMPTY
    ELSE IF Len(comps) = 1 THEN comps[1]
    ELSE comps[1] \o <<sep>> \o join(Tail(comps))

isabs(s) == s # EMPTY /\ s[1] = sep

\* posixpath.join(a, b)
joinpath(a, b) ==
    IF isabs(b) THEN b
    ELSE IF a = EMPTY \/ a[Len(a)] = sep THEN a \o b
    ELSE a \o <<sep>> \o b

\* posixpath.split(p) as <<head, tail>>
splitpath(p) ==
    LET i == rfind(p)
        head == SubSeq(p, 1, i)
        tail == SubSeq(p, i + 1, Len(p))
    IN  <<IF head # EMPTY /\ rstrip(head) # EMPTY THEN rstrip(head) ELSE head, tail>>

dirname(p) == splitpath(p)[1]

basename(p) == SubSeq(p, rfind(p) + 1, Len(p))

\* the loop of posixpath.normpath over the components
RECURSIVE normcomps(_, _, _)
normcomps(comps, new_comps, initial_slashes) ==
    IF comps = <<>> THEN new_comps
    ELSE LET comp == Head(comps) IN
         IF comp = EMPTY \/ comp = curdir
         THEN normcomps(Tail(comps), new_comps, initial_slashes)
         ELSE IF \/ comp # pardir
                 \/ (initial_slashes = 0 /\ new_comps = <<>>)
                 \/ (new_comps # <<>> /\ new_comps[Len(new_comps)] = pardir)
         THEN normcomps(Tail(comps), Append(new_comps, comp), initial_slashes)
         ELSE IF new_comps # <<>>
         THEN normcomps(Tail(comps), SubSeq(new_comps, 1, Len(new_comps) - 1),
                        initial_slashes)
         ELSE normcomps(Tail(comps), new_comps, initial_slashes)

normpath(path) ==
    IF path = EMPTY THEN curdir
    ELSE LET initial_slashes ==
                 IF ~startswith(path, <<sep>>) THEN 0
                 ELSE IF startswith(path, <<sep, sep>>)
                         /\ ~startswith(path, <<sep, sep, sep>>) THEN 2
                 ELSE 1
             body == join(normcomps(split(path), <<>>, initial_slashes))
             res == (IF initial_slashes = 0 THEN EMPTY
                     ELSE IF initial_slashes = 1 THEN <<sep>>
                     ELSE <<sep, sep>>) \o body
         IN  IF res = EMPTY THEN curdir ELSE res

\* posixpath.abspath under working directory wd
abspath(path, wd) ==
    normpath(IF isabs(path) THEN path ELSE joinpath(wd, path))

\* posixpath._joinrealpath over the symbolic links lk; seen holds the links
\* whose resolution is in progress.  joinrealpath_loop is its while loop.
RECURSIVE joinrealpath(_, _, _, _)
RECURSIVE joinrealpath_loop(_, _, _, _)
joinrealpath_loop(path, rest, seen, lk) ==
    IF rest = EMPTY THEN [path |-> path, ok |-> TRUE]
    ELSE
      LET i == find(rest)
          name == IF i = 0 THEN rest ELSE SubSeq(rest, 1, i - 1)
          rest2 == IF i = 0 THEN EMPTY ELSE SubSeq(rest, i + 1, Len(rest))
      IN
      IF name = EMPTY \/ name = curdir THEN joinrealpath_loop(path, rest2, seen, lk)
      ELSE IF name = pardir THEN
          IF path # EMPTY
          THEN LET sp == splitpath(path) IN
               IF sp[2] = pardir
               THEN joinrealpath_loop(joinpath(joinpath(sp[1], pardir), pardir),
                                      rest2, seen, lk)
               ELSE joinrealpath_loop(sp[1], rest2, seen, lk)
          ELSE joinrealpath_loop(pardir, rest2, seen, lk)
      ELSE
          LET newpath == joinpath(path, name) IN
          IF newpath \notin DOMAIN lk
          THEN joinrealpath_loop(newpath, rest2, seen, lk)
          ELSE IF newpath \in seen
          THEN [path |-> joinpath(newpath, rest2), ok |-> FALSE]
          ELSE LET r == joinrealpath(path, lk[newpath], seen \cup {newpath}, lk) IN
               IF ~r.ok THEN [path |-> joinpath(r.path, rest2), ok |-> FALSE]
               ELSE joinrealpath_loop(r.path, rest2, seen, lk)

joinrealpath(path, rest, seen, lk) ==
    IF isabs(rest) THEN joinrealpath_loop(<<sep>>, Tail(rest), seen, lk)
    ELSE joinrealpath_loop(path, rest, seen, lk)

\* posixpath.realpath
realpath(filename, wd, lk) ==
    abspath(joinrealpath(EMPTY, filename, {}, lk).path, wd)

--------------------------------------------------------------------------
(* Path Safety Validator *)

_get_resolved_path(path, wd, lk) == normpath(realpath(abspath(path, wd), wd, lk))

\* the prefix test with its operands exchanged
_is_bad_path_swapped(path, b, wd, lk) ==
    ~startswith(b, _get_resolved_path(joinpath(b, path), wd, lk))

_is_bad_path(path, b, wd, lk) ==
    ~startswith(_get_resolved_path(joinpath(b, path), wd, lk), b)

\* Links are interpreted relative to the directory containing the link
_is_bad_link(info, b, wd, lk) ==
    LET tip == _get_resolved_path(joinpath(b, dirname(info.name)), wd, lk)
    IN  _is_bad_path(info.linkname, tip, wd, lk)

\* canonical path q is d itself or lies below d, compared segment by segment
IsUnder(q, d) ==
    \/ q = d
    \/ startswith(q, IF d[Len(d)] = sep THEN d ELSE d \o <<sep>>)

--------------------------------------------------------------------------
(* The world the calls run in *)

ROOT == <<"/">>
X == <<"/", "x">>
XY == <<"/", "x", "/", "y">>
XYL == <<"/", "x", "/", "y", "/", "l">>

Dirs == {XY, X}

NoLinks == [q \in {} |-> EMPTY]

\* values of the variables a run does not use
IdlePath ==
    /\ vbase = EMPTY /\ vpath = EMPTY /\ verdict = "none"
IdleExtract ==
    /\ destination_path = EMPTY /\ members = <<>> /\ hasDataFilter = FALSE
    /\ idx = 0 /\ base = EMPTY /\ yielded = <<>> /\ extracted = <<>>
    /\ blocked = <<>> /\ written = {}
IdleCompress ==
    /\ files = <<>> /\ files0 = <<>> /\ isBsd = FALSE /\ stored = <<>>
    /\ archiveFile = "absent"
IdleRun ==
    /\ tarExists = FALSE /\ pigzExists = FALSE /\ exitCode = 0
    /\ command = [tool |-> "none"] /\ error = [raised |-> FALSE]
    /\ outcome = "none"

--------------------------------------------------------------------------
(* _is_bad_path applied to a candidate path *)

\* filesystem states: no link; a link under /x/y leading outside /x; a link
\* leading to a place inside /x/y; a link leading to the sibling /x/yy
FsStates ==
    { NoLinks,
      (XYL :> <<"/", "o">>),
      (XYL :> <<"s">>),
      (XYL :> <<".", ".", "/", "y", "y">>) }

Segments == { EMPTY, <<"l">>, <<"f">>, <<"y", "y">>, pardir }

\* every text built from the segments with at most n separators
RECURSIVE Candidates(_)
Candidates(n) ==
    IF n = 0 THEN {EMPTY}
    ELSE LET shorter == Candidates(n - 1) IN
         shorter \cup Segments
                 \cup { c \o <<sep>> \o g : c \in shorter, g \in Segments }

InitPath ==
    /\ op = "path" /\ pc = "start"
    /\ cwd \in Dirs
    /\ links \in FsStates
    /\ vbase \in {ROOT, X, XY}
    /\ vpath \in Candidates(MaxSegs)
    /\ verdict = "none"
    /\ IdleExtract /\ IdleCompress /\ IdleRun

Validate ==
    /\ op = "path" /\ pc = "start"
    /\ verdict' = IF _is_bad_path(vpath, vbase, cwd, links) THEN "bad"
                  ELSE "contained"
    /\ pc' = "done"
    /\ UNCHANGED <<op, cwd, links, vbase, vpath, extractVars, compressVars,
                   tarExists, pigzExists, exitCode, command, error, outcome>>

NextPath == Validate

SpecPath == InitPath /\ [][NextPath]_vars

--------------------------------------------------------------------------
(* extract_tar_gz *)

File(n) == [name |-> n, type |-> "file", linkname |-> EMPTY]
Sym(n, t) == [name |-> n, type |-> "sym", linkname |-> t]
Lnk(n, t) == [name |-> n, type |-> "lnk", linkname |-> t]

\* TarInfo.issym / TarInfo.islnk
issym(info) == info.type = "sym"
islnk(info) == info.type = "lnk"

Entries ==
    { File(<<"f">>),
      File(<<".", ".", "/", "e">>),
      File(<<".", ".", "/", "y", "y", "/", "f">>),
      File(<<"/", "x", "/", "f">>),
      File(<<"l", "/", "f">>),
      Sym(<<"l">>, <<"a">>),
      Sym(<<"a", "/", "l">>, <<".", ".", "/", ".", ".", "/", "o">>),
      Sym(<<"a", "/", "l">>, <<".", ".", "/", "b">>),
      Lnk(<<"h">>, <<".", ".", "/", "y", "y">>) }

RECURSIVE Archives(_)
Archives(n) ==
    IF n = 0 THEN {<<>>}
    ELSE LET shorter == Archives(n - 1) IN
         shorter \cup { Append(a, e) : a \in shorter, e \in Entries }

\* The progress of one extraction: the links on disk, the canonical places
\* written, the entries yielded / materialized / blocked, and whether an
\* exception has ended it.
StartState(lk) ==
    [links |-> lk, written |-> {}, yielded |-> <<>>, extracted |-> <<>>,
     blocked |-> <<>>, raised |-> FALSE, refused |-> FALSE]

\* TarFile._extract_member of the in-process archiver, for the entry info
\* stored under name: the entry is created at join(path, name); a regular
\* file is opened for writing through whatever link is there, a link is
\* created in the resolved parent directory.
extract_member(st, info, name, path, wd) ==
    LET targetpath == rstrip(joinpath(path, name))
        place ==
            IF info.type = "file"
            THEN _get_resolved_path(targetpath, wd, st.links)
            ELSE normpath(joinpath(
                     _get_resolved_path(dirname(targetpath), wd, st.links),
                     basename(targetpath)))
    IN  [st EXCEPT !.written = @ \cup {place},
                   !.extracted = Append(@, info),
                   !.links = IF issym(info) THEN (place :> info.linkname) @@ @
                             ELSE @]

\* One iteration of the loop of _get_safe_members, followed by what
\* TarFile.extractall does with a yielded entry.
safe_members_step(st, info, b, path, wd) ==
    IF _is_bad_path(info.name, b, wd, st.links)
    THEN [st EXCEPT !.blocked = Append(@, info)]
    ELSE IF issym(info) /\ _is_bad_link(info, b, wd, st.links)
    THEN [st EXCEPT !.blocked = Append(@, info)]
    ELSE IF islnk(info) /\ _is_bad_link(info, b, wd, st.links)
    THEN [st EXCEPT !.blocked = Append(@, info)]
    ELSE extract_member([st EXCEPT !.yielded = Append(@, info)],
                        info, info.name, path, wd)

\* tarfile.data_filter then extraction (filter="data"): the name loses its
\* leading separators; an entry or a link target resolving outside the
\* destination raises a FilterError, which ends extractall.
data_filter_step(st, info, path, wd) ==
    LET dest_path == realpath(path, wd, st.links)
        name == lstrip(info.name)
        target_path == realpath(joinpath(dest_path, name), wd, st.links)
        link_path ==
            realpath(IF issym(info)
                     THEN joinpath(joinpath(dest_path, dirname(name)), info.linkname)
                     ELSE joinpath(dest_path, info.linkname),
                     wd, st.links)
    IN  IF ~IsUnder(target_path, dest_path)
        THEN [st EXCEPT !.raised = TRUE]
        ELSE IF (issym(info) \/ islnk(info))
                /\ (isabs(info.linkname) \/ ~IsUnder(link_path, dest_path))
        THEN [st EXCEPT !.raised = TRUE]
        ELSE extract_member(st, info, name, path, wd)

\* The external tar, given -C path, on one entry.  No in-process filter is
\* applied.  A tar that protects itself (protects = TRUE) drops leading
\* separators and refuses a name with a ".." segment, ending non-zero;
\* one that does not creates the entry under the name as stored.
tar_step(st, info, path, wd, protects) ==
    IF protects /\ \E k \in 1..Len(split(info.name)) : split(info.name)[k] = pardir
    THEN [st EXCEPT !.refused = TRUE]
    ELSE extract_member(st, info, IF protects THEN lstrip(info.name) ELSE info.name,
                        path, wd)

InitExtract ==
    /\ op = "extract" /\ pc = "start"
    /\ cwd \in Dirs
    /\ links = NoLinks
    /\ destination_path \in Dirs
    /\ members \in Archives(MaxEntries)
    /\ tarExists \in BOOLEAN
    /\ pigzExists \in (IF tarExists THEN BOOLEAN ELSE {FALSE})
    /\ hasDataFilter \in BOOLEAN
    /\ idx = 0 /\ base = EMPTY
    /\ yielded = <<>> /\ extracted = <<>> /\ blocked = <<>> /\ written = {}
    /\ outcome = "none" /\ exitCode = 0
    /\ command = [tool |-> "none"] /\ error = [raised |-> FALSE]
    /\ IdlePath /\ IdleCompress

\* the progress record held in the variables
Now ==
    [links |-> links, written |-> written, yielded |-> yielded,
     extracted |-> extracted, blocked |-> blocked, raised |-> FALSE,
     refused |-> exitCode # 0]

Becomes(st) ==
    /\ links' = st.links
    /\ written' = st.written
    /\ yielded' = st.yielded
    /\ extracted' = st.extracted
    /\ blocked' = st.blocked

frameExtract ==
    UNCHANGED <<op, cwd, pathVars, compressVars, destination_path, members,
                tarExists, pigzExists, hasDataFilter>>

\* extract_tar_gz up to the point where entries start to be read: with tar
\* the command line is built and run; without it the archive is opened and
\* custom_extractall_tarfile picks the data filter when tarfile has one,
\* else _get_safe_members, whose first step computes base
ExtractBegin ==
    /\ op = "extract" /\ pc = "start"
    /\ idx' = 1
    /\ IF tarExists
       THEN /\ pc' = "tar"
            /\ command' = [tool |-> IF pigzExists THEN "pigz|tar" ELSE "tar",
                           C |-> destination_path]
            /\ base' = base
       ELSE IF hasDataFilter
       THEN /\ pc' = "data_filter"
            /\ UNCHANGED <<command, base>>
       ELSE /\ pc' = "safe_members"
            /\ base' = _get_resolved_path(curdir, cwd, links)
            /\ command' = command
    /\ UNCHANGED <<links, written, yielded, extracted, blocked, outcome,
                   exitCode, error>>
    /\ frameExtract

SafeMembersStep ==
    /\ op = "extract" /\ pc = "safe_members" /\ idx <= Len(members)
    /\ Becomes(safe_members_step(Now, members[idx], base, destination_path, cwd))
    /\ idx' = idx + 1
    /\ UNCHANGED <<pc, base, outcome, exitCode, command, error>>
    /\ frameExtract

DataFilterStep ==
    /\ op = "extract" /\ pc = "data_filter" /\ idx <= Len(members)
    /\ LET st == data_filter_step(Now, members[idx], destination_path, cwd) IN
       /\ Becomes(st)
       /\ IF st.raised
          THEN /\ pc' = "done" /\ outcome' = "raised"
               /\ error' = [raised |-> TRUE, kind |-> "FilterError"]
               /\ idx' = idx
          ELSE /\ idx' = idx + 1
               /\ UNCHANGED <<pc, outcome, error>>
    /\ UNCHANGED <<base, exitCode, command>>
    /\ frameExtract

TarStep ==
    /\ op = "extract" /\ pc = "tar" /\ idx <= Len(members)
    /\ \E protects \in BOOLEAN :
         LET st == tar_step(Now, members[idx], destination_path, cwd, protects) IN
         /\ Becomes(st)
         /\ exitCode' = IF st.refused THEN 2 ELSE exitCode
    /\ idx' = idx + 1
    /\ UNCHANGED <<pc, base, outcome, command, error>>
    /\ frameExtract

\* all entries read: extractall returns, or subprocess.run(check=True) ends
ExtractEnd ==
    /\ op = "extract" /\ pc \in {"tar", "data_filter", "safe_members"}
    /\ idx > Len(members)
    /\ pc' = "done"
    /\ IF pc = "tar" /\ exitCode # 0
       THEN /\ outcome' = "raised"
            /\ error' = [raised |-> TRUE, kind |-> "CalledProcessError"]
       ELSE /\ outcome' = "returned"
            /\ error' = error
    /\ UNCHANGED <<links, written, yielded, extracted, blocked, idx, base,
                   exitCode, command>>
    /\ frameExtract

Next == ExtractBegin \/ SafeMembersStep \/ DataFilterStep \/ TarStep \/ ExtractEnd

Spec == InitExtract /\ [][Next]_vars

--------------------------------------------------------------------------
(* compress_files_to_tar_gz *)

\* an optional str: None, or the one-element sequence holding the str
None == <<>>
Some(v) == <<v>>

FileToCompress(file_path, arcname) == [file_path |-> file_path, arcname |-> arcname]

\* the source tree: d is a directory holding the file f; d.t and e are files
D == <<"d">>
DT == <<"d", ".", "t">>
E == <<"e">>
SourcePaths == {D, DT, E}
listdir(path) == IF path = D THEN <<<<"f">>>> ELSE <<>>

ArcNames == {None, Some(<<sep>>), Some(<<"r">>)}

FileObjects == { FileToCompress(q, a) : q \in SourcePaths, a \in ArcNames }

\* lists of at most n objects naming different source paths
RECURSIVE FileLists(_)
FileLists(n) ==
    IF n = 0 THEN {<<>>}
    ELSE LET shorter == FileLists(n - 1) IN
         shorter \cup
         { Append(lf[1], lf[2]) :
             lf \in { q \in shorter \X FileObjects :
                        \A k \in 1..Len(q[1]) : q[1][k].file_path # q[2].file_path } }

\* what the tool prints on its standard error when it ends non-zero
ToolStderr == "tar: Exiting with failure status due to previous errors"

\* re.escape on the characters paths are made of: "." is a regex
\* metacharacter and gets a backslash, letters and "/" do not
RECURSIVE re_escape(_)
re_escape(text) ==
    IF text = EMPTY THEN EMPTY
    ELSE (IF Head(text) = "." THEN <<"\\", ".">> ELSE <<Head(text)>>)
         \o re_escape(Tail(text))

\* how the tool's substitution reads an escaped text back: a backslash makes
\* the next character literal
RECURSIVE unescape(_)
unescape(text) ==
    IF text = EMPTY THEN EMPTY
    ELSE IF Head(text) = "\\" /\ Len(text) >= 2
    THEN <<text[2]>> \o unescape(SubSeq(text, 3, Len(text)))
    ELSE <<Head(text)>> \o unescape(Tail(text))

has_transform(self) == self.arcname # None

\* FileToCompress.get_transform: the value returned (ret) and the object as
\* the call leaves it (self)
get_transform(self, bsd) ==
    IF self.arcname = None THEN [ret |-> [flag |-> "none"], self |-> self]
    ELSE LET after == IF self.arcname = Some(<<sep>>)
                      THEN [self EXCEPT !.arcname = Some(EMPTY)]
                      ELSE self
         IN  [ret |-> [flag |-> IF bsd THEN "-s" ELSE "--transform",
                       pattern |-> re_escape(after.file_path),
                       replacement |-> re_escape(after.arcname[1])],
              self |-> after]

\* the tool's "s|^pattern|replacement|" on one member name
substitute(name, t) ==
    LET pat == unescape(t.pattern) IN
    IF startswith(name, pat)
    THEN [hit |-> TRUE,
          name |-> unescape(t.replacement) \o SubSeq(name, Len(pat) + 1, Len(name))]
    ELSE [hit |-> FALSE, name |-> name]

\* every rename directive of the command line applied to a member name: GNU
\* tar applies each in turn, bsdtar stops at the first that matches
RECURSIVE rename(_, _, _)
rename(name, transforms, bsd) ==
    IF transforms = <<>> THEN name
    ELSE LET r == substitute(name, Head(transforms)) IN
         IF bsd /\ r.hit THEN r.name
         ELSE rename(r.name, Tail(transforms), bsd)

\* the member names one source path contributes: itself, then its children
source_members(path) ==
    <<path>> \o [k \in 1..Len(listdir(path)) |-> joinpath(path, listdir(path)[k])]

RECURSIVE all_members(_)
all_members(paths) ==
    IF paths = <<>> THEN <<>>
    ELSE source_members(Head(paths)) \o all_members(Tail(paths))

\* names stored by the external tar for the given directives and paths; a
\* leading separator is removed from a stored name
tar_create(transforms, paths, bsd) ==
    LET ms == all_members(paths) IN
    [k \in 1..Len(ms) |-> lstrip(rename(ms[k], transforms, bsd))]

\* names stored by TarFile.add(name, arcname=arcname) of the in-process
\* archiver: the entry under arcname (name itself when arcname is None), its
\* children under join(arcname, child); a leading separator is removed
tarfile_add(name, arcname) ==
    LET arc == IF arcname = None THEN name ELSE arcname[1] IN
    <<lstrip(arc)>>
        \o [k \in 1..Len(listdir(name)) |-> lstrip(joinpath(arc, listdir(name)[k]))]

RECURSIVE tarfile_add_all(_)
tarfile_add_all(fs) ==
    IF fs = <<>> THEN <<>>
    ELSE tarfile_add(Head(fs).file_path, Head(fs).arcname) \o tarfile_add_all(Tail(fs))

\* the list after get_transform has been called on each file that has one
RECURSIVE after_transforms(_, _)
after_transforms(fs, bsd) ==
    IF fs = <<>> THEN <<>>
    ELSE <<IF has_transform(Head(fs)) THEN get_transform(Head(fs), bsd).self
           ELSE Head(fs)>> \o after_transforms(Tail(fs), bsd)

RECURSIVE transforms_of(_, _)
transforms_of(fs, bsd) ==
    IF fs = <<>> THEN <<>>
    ELSE (IF has_transform(Head(fs)) THEN <<get_transform(Head(fs), bsd).ret>>
          ELSE <<>>) \o transforms_of(Tail(fs), bsd)

\* subprocess.run(command_text, shell=True, check=True, text=True,
\* capture_output=True): a non-zero exit raises CalledProcessError, which
\* carries the exit status and the captured output
\* the same call with check=False: the exit status is not looked at
run_unchecked(status) == [raised |-> FALSE]

run_checked(status) ==
    IF status # 0
    THEN [raised |-> TRUE, kind |-> "CalledProcessError",
          returncode |-> status, stderr |-> ToolStderr]
    ELSE [raised |-> FALSE]

InitCompress ==
    /\ op = "compress" /\ pc = "start"
    /\ cwd = X /\ links = NoLinks
    /\ files0 \in FileLists(MaxFiles)
    /\ files = files0
    /\ tarExists \in BOOLEAN
    /\ pigzExists \in (IF tarExists THEN BOOLEAN ELSE {FALSE})
    /\ isBsd \in (IF tarExists THEN BOOLEAN ELSE {FALSE})
    /\ exitCode \in (IF tarExists THEN {0, 2} ELSE {0})
    /\ command = [tool |-> "none"] /\ error = [raised |-> FALSE]
    /\ stored = <<>> /\ archiveFile = "absent" /\ outcome = "none"
    /\ IdlePath /\ IdleExtract

frameCompress ==
    UNCHANGED <<op, cwd, links, pathVars, extractVars, files0, tarExists,
                pigzExists, isBsd, exitCode>>

\* the branch taken when tar exists: the transforms are collected (which
\* calls get_transform on each file that has one), the command is built and
\* run.  On a non-zero exit the tool may have left nothing or an incomplete
\* file at archive_path; nothing removes it.
CompressWithTar ==
    /\ op = "compress" /\ pc = "start" /\ tarExists
    /\ LET transforms == transforms_of(files, isBsd)
           paths == [k \in 1..Len(files) |-> files[k].file_path]
           raised == run_checked(exitCode)
       IN  /\ files' = after_transforms(files, isBsd)
           /\ command' = [tool |-> "tar",
                          compress_command |->
                              IF pigzExists THEN "-c --use-compress-program=pigz -f"
                              ELSE "-czf",
                          transforms |-> transforms, files |-> paths]
           /\ IF exitCode # 0
              THEN /\ archiveFile' \in {"absent", "partial"}
                   /\ stored' = <<>>
              ELSE /\ archiveFile' = "complete"
                   /\ stored' = tar_create(transforms, paths, isBsd)
           /\ error' = raised
           /\ outcome' = IF raised.raised THEN "raised" ELSE "returned"
    /\ pc' = "done"
    /\ frameCompress

\* the branch taken without tar: each file is added by the in-process archiver
CompressInProcess ==
    /\ op = "compress" /\ pc = "start" /\ ~tarExists
    /\ stored' = tarfile_add_all(files)
    /\ archiveFile' = "complete"
    /\ outcome' = "returned"
    /\ pc' = "done"
    /\ UNCHANGED <<files, command, error>>
    /\ frameCompress

NextCompress == CompressWithTar \/ CompressInProcess

SpecCompress == InitCompress /\ [][NextCompress]_vars

--------------------------------------------------------------------------
(* Properties of extraction *)

\* BaseDirectory: the canonical form of the destination, taken when the call
\* starts
BaseDirectory == _get_resolved_path(destination_path, cwd, NoLinks)

\* the whole in-process extraction of the archive, from entry i on
RECURSIVE in_process(_, _)
in_process(st, i) ==
    IF i > Len(members) \/ st.raised THEN st
    ELSE in_process(
             IF hasDataFilter
             THEN data_filter_step(st, members[i], destination_path, cwd)
             ELSE safe_members_step(st, members[i],
                                    _get_resolved_path(curdir, cwd, NoLinks),
                                    destination_path, cwd),
             i + 1)

\* C1: on the in-process path every materialized entry lands at a canonical
\* path equal to or nested under the canonical destination
C1_FallbackStaysInDestination ==
    (op = "extract" /\ ~tarExists) =>
        \A w \in written : IsUnder(w, BaseDirectory)

\* C2: without tar, where the entry filter is what guards extraction, the
\* filter's base is the canonical destination_path, every entry read so far
\* went through the filter, and only yielded entries are materialized
C2_FilterBaseIsDestination ==
    (op = "extract" /\ ~tarExists /\ ~hasDataFilter /\ pc \in {"safe_members", "done"}) =>
        /\ base = BaseDirectory
        /\ extracted = yielded
        /\ Len(yielded) + Len(blocked) = idx - 1

\* the entry's name lies in directory b, and the target of a link lies in
\* the canonical directory that holds the link
NameContained(info, b) ==
    IsUnder(_get_resolved_path(joinpath(b, info.name), cwd, links), b)
LinkContained(info, b) ==
    LET tip == _get_resolved_path(joinpath(b, dirname(info.name)), cwd, links)
    IN  IsUnder(_get_resolved_path(joinpath(tip, info.linkname), cwd, links), tip)

\* C4: each step of the filter yields its entry, unchanged and in order, exactly
\* when the name is contained in the base and, for a link, the target is
\* contained in the link's directory; otherwise it drops it and goes on
C4_FilterYieldsExactlyContained ==
    [][SafeMembersStep =>
         LET info == members[idx]
             safe == /\ NameContained(info, base)
                     /\ (issym(info) \/ islnk(info)) => LinkContained(info, base)
         IN  /\ yielded' = IF safe THEN Append(yielded, info) ELSE yielded
             /\ blocked' = IF safe THEN blocked ELSE Append(blocked, info)
             /\ idx' = idx + 1 /\ pc' = pc]_vars

\* C5: with tar present the call materializes what the in-process path would
\* have materialized for the same archive and destination
C5_StrategiesAgree ==
    (op = "extract" /\ tarExists /\ pc = "done") =>
        LET r == in_process(StartState(NoLinks), 1) IN
        /\ extracted = r.extracted
        /\ written = r.written

\* C10: a link whose target, resolved from the link's own canonical
\* directory, lies outside that directory is never yielded
C10_LinkConfinedToOwnDirectory ==
    [][(SafeMembersStep
          /\ (issym(members[idx]) \/ islnk(members[idx]))
          /\ ~LinkContained(members[idx], base))
       => yielded' = yielded]_vars

--------------------------------------------------------------------------
(* Properties of the containment check *)

\* what _is_bad_path compared against the base
Resolved == _get_resolved_path(joinpath(vbase, vpath), cwd, links)

\* C3: a candidate resolving to a sibling that only shares the base as a
\* string prefix is judged unsafe
C3_SiblingPrefixIsUnsafe ==
    (op = "path" /\ pc = "done"
       /\ startswith(Resolved, vbase) /\ ~IsUnder(Resolved, vbase))
    => verdict = "bad"

\* a relative path with no ".." segment and no leading separator
PlainRelative(path) ==
    /\ ~isabs(path)
    /\ \A k \in 1..Len(split(path)) : split(path)[k] # pardir

\* every symbolic link that exists under directory d leads to a place in d
LinksStayInside(d) ==
    \A q \in DOMAIN links :
        IsUnder(q, d) => IsUnder(realpath(q, cwd, links), d)

\* C8 as stated: in every filesystem state a plain relative path is contained
C8_PlainRelativeContained ==
    (op = "path" /\ pc = "done" /\ PlainRelative(vpath)) => verdict = "contained"

\* C8 amended: a plain relative path is contained in every filesystem state
\* whose symbolic links under the base all lead to places inside the base
C8_PlainRelativeContainedInsideLinks ==
    (op = "path" /\ pc = "done" /\ PlainRelative(vpath) /\ LinksStayInside(vbase))
    => verdict = "contained"

\* a plain relative path that passes through an existing link was checked
C8_Witness ==
    /\ op = "path" /\ pc = "done" /\ vbase = XY
    /\ XYL \in DOMAIN links /\ LinksStayInside(vbase)
    /\ vpath = <<"l", "/", "f">>
    /\ Resolved = <<"/", "x", "/", "y", "/", "s", "/", "f">>
    /\ verdict = "contained"

--------------------------------------------------------------------------
(* Properties of compression *)

\* C6: whichever strategy ran, the stored names are the ones the other
\* strategy stores for the same list of files
C6_RenameSemanticsAgree ==
    (op = "compress" /\ pc = "done" /\ outcome = "returned") =>
        stored = IF tarExists THEN tarfile_add_all(files0)
                 ELSE tar_create(transforms_of(files0, isBsd),
                                 [k \in 1..Len(files0) |-> files0[k].file_path],
                                 isBsd)

C9_EntriesImmutable ==
    op = "compress" => files = files0

====
